---- MODULE Spec2Model ----
(***************************************************************************)
(* Material and outsourced-production ledger of emporiodakaty/camisas.     *)
(*                                                                         *)
(* Decimal fields are held as integers in the unit of their last decimal   *)
(* place:                                                                  *)
(*   Insumo.estoque_atual, Insumo.custo_medio, FichaTecnicaItem.quantidade,*)
(*   MovimentoEstoque.quantidade/custo_unit, VariacaoProduto.custo_unitario*)
(*                                        : 1/10000 (4 decimal places)     *)
(*   RemessaItem.qtd_*, VariacaoProduto.estoque_atual, OrdemProducao.      *)
(*   quantidade, prices, PagamentoCostureira.valor_total                   *)
(*                                        : 1/100   (2 decimal places)     *)
(* The state is the committed content of the database.                     *)
(***************************************************************************)
EXTENDS Integers, Sequences, FiniteSets, TLC

VARIABLES insumos, variacoes, remessas, pagamentos, movimentos, pedidos, ultimo,
          requisicoes

vars == <<insumos, variacoes, remessas, pagamentos, movimentos, pedidos, ultimo,
          requisicoes>>

(***************************************************************************)
(* Bounds of the model.                                                    *)
(***************************************************************************)
\* longest stock-movement log an operation may leave behind
MaxMov == 6
\* longest stock-movement log of the runs of the material ledger alone
MaxMovLedger == 3
\* latest reading of the clock
MaxRelogio == 4
\* largest material quantity on hand a receipt may produce (1/10000)
MaxEstoque == 40000
\* longest stock-movement log of the runs with the material form
MaxMovCadastro == 1
\* most shipments the database holds
MaxRemessas == 2
\* most blanks before and after a category name
MaxEspacos == 1
\* requests served at the same time
NumRequisicoes == 2
\* longest stock-movement log of the runs with requests in flight
MaxMovConc == 2

(***************************************************************************)
(* Decimal arithmetic.                                                     *)
(***************************************************************************)
\* n / d rounded to the nearest integer, ties to even (decimal.ROUND_HALF_EVEN,
\* the rounding of Decimal.quantize and of DecimalField on save); d > 0
RoundHalfEven(n, d) ==
  LET q == n \div d
      r == n % d
  IN  IF 2 * r < d THEN q
      ELSE IF 2 * r > d THEN q + 1
      ELSE IF q % 2 = 0 THEN q ELSE q + 1

\* n / d rounded to the nearest integer, ties away from zero (the rounding of
\* a PostgreSQL numeric column); n >= 0, d > 0
RoundHalfUp(n, d) == (2 * n + d) \div (2 * d)

\* the database backends of settings.DATABASES: SQLite by default, PostgreSQL
\* when DATABASE_URL is set
Bancos == {"sqlite3", "postgresql"}

\* a Decimal stored in a DecimalField column: Django quantizes it for SQLite
\* (ROUND_HALF_EVEN), PostgreSQL rounds it itself
ArredondaNoBanco(banco, n, d) ==
  IF banco = "sqlite3" THEN RoundHalfEven(n, d) ELSE RoundHalfUp(n, d)

\* (a * b).quantize(Decimal("0.0001")) for a in 1/10000 and b in 1/100
Quantize4(a, b) == RoundHalfEven(a * b, 100)

\* x.quantize(Decimal("0.00")) for x in 1/10000, result in 1/100
Quantize2(x) == RoundHalfEven(x, 100)

RECURSIVE SumSeq(_)
SumSeq(s) == IF s = <<>> THEN 0 ELSE Head(s) + SumSeq(Tail(s))

(***************************************************************************)
(* Master data.                                                            *)
(***************************************************************************)
Insumos == {"m1", "m2", "m3"}
Variacoes == {"v1", "v2"}
Costureiras == {"c1", "c2"}

\* CategoriaInsumo.nome of each material, as a sequence of characters
CategoriaNome(m) ==
  CASE m = "m1" -> <<"T", "e", "c", "i", "d", "o">>
    [] m = "m2" -> <<"L", "i", "n", "h", "a">>
    [] OTHER    -> <<"E", "t", "i", "q", "u", "e", "t", "a">>

\* FichaTecnicaItem rows of each variant, in primary-key order
Ficha(v) ==
  IF v = "v1"
  THEN << [insumo |-> "m1", quantidade |-> 10000, fase |-> "AUTO"],
          [insumo |-> "m2", quantidade |-> 5000,  fase |-> "AUTO"],
          [insumo |-> "m3", quantidade |-> 2555,  fase |-> "CORTE"] >>
  ELSE << [insumo |-> "m1", quantidade |-> 5000,  fase |-> "COSTURA"],
          [insumo |-> "m2", quantidade |-> 10000, fase |-> "AUTO"] >>

\* Costureira base prices per piece (1/100)
Costureira(c) ==
  IF c = "c1"
  THEN [preco_corte_por_peca |-> 25, preco_costura_por_peca |-> 100,
        preco_correcao_por_peca |-> 1]
  ELSE [preco_corte_por_peca |-> 50, preco_costura_por_peca |-> 75,
        preco_correcao_por_peca |-> 30]

TIPOS == {"CORTE", "COSTURA", "CORRECAO"}

(***************************************************************************)
(* Phase resolver.                                                         *)
(***************************************************************************)
\* str.lower() on the characters that occur in category names; "o_agudo" and
\* "O_agudo" stand for the letter o with an acute accent, small and capital
LowerChar(c) ==
  CASE c = "T" -> "t" [] c = "E" -> "e" [] c = "C" -> "c" [] c = "I" -> "i"
    [] c = "D" -> "d" [] c = "O" -> "o" [] c = "L" -> "l" [] c = "N" -> "n"
    [] c = "H" -> "h" [] c = "A" -> "a" [] c = "Q" -> "q" [] c = "U" -> "u"
    [] c = "O_agudo" -> "o_agudo"
    [] OTHER -> c

\* a comparison that takes the name as it is written
Lower_como_escrito(s) == s

Lower(s) == [i \in 1..Len(s) |-> LowerChar(s[i])]

RECURSIVE LStrip(_)
LStrip(s) == IF s # <<>> /\ Head(s) = " " THEN LStrip(Tail(s)) ELSE s

RECURSIVE RStrip(_)
RStrip(s) ==
  IF s # <<>> /\ s[Len(s)] = " " THEN RStrip(SubSeq(s, 1, Len(s) - 1)) ELSE s

Strip(s) == RStrip(LStrip(s))

\* a resolver that looks at the category alone
resolver_fase_item_so_categoria(insumo_categoria_nome, fase_config) ==
  LET nome == IF insumo_categoria_nome = <<>> THEN <<>> ELSE insumo_categoria_nome[1]
  IN  IF Lower(Strip(nome)) = <<"t", "e", "c", "i", "d", "o">>
      THEN "CORTE" ELSE "COSTURA"

\* _resolver_fase_item; insumo_categoria_nome is <<>> for None and <<nome>> for
\* a str
resolver_fase_item(insumo_categoria_nome, fase_config) ==
  LET nome == IF insumo_categoria_nome = <<>> THEN <<>> ELSE insumo_categoria_nome[1]
  IN  IF fase_config # "" /\ fase_config # "AUTO"
      THEN fase_config
      ELSE IF Lower(Strip(nome)) = <<"t", "e", "c", "i", "d", "o">>
           THEN "CORTE" ELSE "COSTURA"

(***************************************************************************)
(* Database rows.                                                          *)
(***************************************************************************)
\* the database as one value, so that a transaction can be run on a copy
DB == [insumos |-> insumos, variacoes |-> variacoes, remessas |-> remessas,
       pagamentos |-> pagamentos, movimentos |-> movimentos]

\* MovimentoEstoque row; "" and 0 stand for NULL
MovimentoEstoque(tipo, insumo, variacao, quantidade, custo_unit, costureira, remessa) ==
  [tipo |-> tipo, insumo |-> insumo, variacao |-> variacao,
   quantidade |-> quantidade, custo_unit |-> custo_unit,
   costureira |-> costureira, remessa |-> remessa]

(***************************************************************************)
(* Insumo: weighted-average-cost ledger.                                   *)
(***************************************************************************)
\* a weighted average cut off at four decimals instead of rounded
entrada_trunca(db, banco, m, quantidade, custo_unit, costureira, remessa) ==
  LET ins == db.insumos[m]
      total_ant == ins.estoque_atual * ins.custo_medio
      total_novo == quantidade * custo_unit
      novo_estoque == ins.estoque_atual + quantidade
      novo_custo == IF novo_estoque > 0
                    THEN (total_ant + total_novo) \div novo_estoque
                    ELSE ins.custo_medio
  IN  [db EXCEPT
        !.insumos[m] = [estoque_atual |-> novo_estoque, custo_medio |-> novo_custo],
        !.movimentos = Append(@, MovimentoEstoque("E", m, "", quantidade,
                                                  custo_unit, costureira, remessa))]

\* Insumo.entrada; banco is the backend that stores the row
entrada(db, banco, m, quantidade, custo_unit, costureira, remessa) ==
  LET ins == db.insumos[m]
      total_ant == ins.estoque_atual * ins.custo_medio
      total_novo == quantidade * custo_unit
      novo_estoque == ins.estoque_atual + quantidade
      novo_custo == IF novo_estoque > 0
                    THEN ArredondaNoBanco(banco, total_ant + total_novo, novo_estoque)
                    ELSE ins.custo_medio
  IN  [db EXCEPT
        !.insumos[m] = [estoque_atual |-> novo_estoque, custo_medio |-> novo_custo],
        !.movimentos = Append(@, MovimentoEstoque("E", m, "", quantidade,
                                                  custo_unit, costureira, remessa))]

\* the test left out
EstoqueInsuficiente_ausente(ins, quantidade) == FALSE

\* the test that makes Insumo.saida raise ValueError
EstoqueInsuficiente(ins, quantidade) == quantidade > ins.estoque_atual

\* an issue that hands out what is left instead of raising
saida_ate_zerar(db, m, quantidade, costureira, remessa) ==
  LET ins == db.insumos[m]
      q == IF quantidade > ins.estoque_atual THEN ins.estoque_atual ELSE quantidade
  IN  [erro |-> FALSE,
       db |-> [db EXCEPT
         !.insumos[m].estoque_atual = @ - q,
         !.movimentos = Append(@, MovimentoEstoque("S", m, "", q,
                                   ins.custo_medio, costureira, remessa))]]

\* an issue whose movement carries no cost
saida_sem_custo(db, m, quantidade, costureira, remessa) ==
  LET ins == db.insumos[m]
  IN  IF EstoqueInsuficiente(ins, quantidade)
      THEN [erro |-> TRUE, db |-> db]
      ELSE [erro |-> FALSE,
            db |-> [db EXCEPT
              !.insumos[m].estoque_atual = @ - quantidade,
              !.movimentos = Append(@, MovimentoEstoque("S", m, "", quantidade,
                                        0, costureira, remessa))]]

\* Insumo.saida; erro = TRUE when it raised, and then nothing was written
saida(db, m, quantidade, costureira, remessa) ==
  LET ins == db.insumos[m]
  IN  IF EstoqueInsuficiente(ins, quantidade)
      THEN [erro |-> TRUE, db |-> db]
      ELSE [erro |-> FALSE,
            db |-> [db EXCEPT
              !.insumos[m].estoque_atual = @ - quantidade,
              !.movimentos = Append(@, MovimentoEstoque("S", m, "", quantidade,
                                        ins.custo_medio, costureira, remessa))]]

(***************************************************************************)
(* OrdemProducao.processar                                                 *)
(***************************************************************************)
\* the loop over variacao.ficha.all(); st = [db, erro, total_insumos]
RECURSIVE processar_ficha(_, _, _, _)
processar_ficha(st, ficha, k, quantidade) ==
  IF st.erro \/ k > Len(ficha) THEN st
  ELSE LET item == ficha[k]
           qt_total == Quantize4(item.quantidade, quantidade)
           custo == st.db.insumos[item.insumo].custo_medio
           s == saida(st.db, item.insumo, qt_total, "", 0)
       IN  processar_ficha([db |-> s.db, erro |-> s.erro,
                            total_insumos |-> st.total_insumos + custo * qt_total],
                           ficha, k + 1, quantidade)

\* op = [variacao, quantidade, custo_mao_de_obra, custo_indireto_rateado];
\* var is the VariacaoProduto instance the order holds (as it was loaded)
processar(db, op, var) ==
  LET st == processar_ficha([db |-> db, erro |-> FALSE, total_insumos |-> 0],
                            Ficha(op.variacao), 1, op.quantidade)
      total == st.total_insumos
               + (op.custo_mao_de_obra + op.custo_indireto_rateado) * 1000000
      custo_unit == RoundHalfEven(total, op.quantidade * 100)
  IN  IF st.erro THEN [erro |-> TRUE, db |-> st.db, custo_unit |-> 0]
      ELSE [erro |-> FALSE, custo_unit |-> custo_unit,
            db |-> [st.db EXCEPT
              !.variacoes[op.variacao] =
                 [estoque_atual |-> var.estoque_atual + op.quantidade,
                  custo_unitario |-> custo_unit],
              !.movimentos = Append(@, MovimentoEstoque("E", "", op.variacao,
                                        op.quantidade * 100, custo_unit, "", 0))]]

(***************************************************************************)
(* Remessa, RemessaItem, PagamentoCostureira.                              *)
(***************************************************************************)
\* RemessaItem.saldo; every operand has two decimal places, the quantize is exact
saldo(it) ==
  LET consumido == it.qtd_ok + it.qtd_perda + it.qtd_extravio + it.qtd_devolvida
  IN  it.qtd_prevista - consumido

\* Remessa.preco_base_para_tipo
preco_base_para_tipo(rem) ==
  LET c == Costureira(rem.costureira)
  IN  IF rem.tipo = "CORTE" THEN c.preco_corte_por_peca
      ELSE IF rem.tipo = "COSTURA" THEN c.preco_costura_por_peca
      ELSE c.preco_correcao_por_peca

\* the base price whatever the line says
preco_unitario_so_base(it, rem) == preco_base_para_tipo(rem)

\* RemessaItem.preco_unitario_efetivo: preco_unit or the base price
preco_unitario_efetivo(it, rem) ==
  IF it.preco_unit # 0 THEN it.preco_unit ELSE preco_base_para_tipo(rem)

\* RemessaItem.a_pagar (1/100)
a_pagar(it, rem) == Quantize2(preco_unitario_efetivo(it, rem) * it.qtd_ok)

\* Remessa.total_a_pagar (1/100)
total_a_pagar(rem) ==
  SumSeq([i \in 1..Len(rem.itens) |-> a_pagar(rem.itens[i], rem)])

\* a status that is CONCLUIDO only when the balances sum to exactly zero
atualizar_status_saldo_exato(recebido_em, itens) ==
  LET saldo_total == SumSeq([i \in 1..Len(itens) |-> saldo(itens[i])])
  IN  IF recebido_em # 0 /\ saldo_total # 0 THEN "PARCIAL"
      ELSE IF recebido_em # 0 THEN "CONCLUIDO"
      ELSE "ENVIADA"

\* Remessa.atualizar_status_por_itens: the status for a recebido_em and lines
atualizar_status_por_itens(recebido_em, itens) ==
  LET saldo_total == SumSeq([i \in 1..Len(itens) |-> saldo(itens[i])])
  IN  IF recebido_em # 0 /\ saldo_total > 0 THEN "PARCIAL"
      ELSE IF recebido_em # 0 /\ saldo_total <= 0 THEN "CONCLUIDO"
      ELSE "ENVIADA"

\* no phase filter: every entry of the variant is consumed
FaseConsumida_todas(fi, tipo) == TRUE

\* the phase filter of the two consumption loops of finalizar_recebimento
FaseConsumida(fi, tipo) ==
  resolver_fase_item(<<CategoriaNome(fi.insumo)>>, fi.fase) = tipo

\* the loop over it.variacao.ficha.all() of one line; st = [db, erro, total_pagto]
RECURSIVE baixa_ficha(_, _, _, _, _, _)
baixa_ficha(st, r, rem, ficha, k, qtd_ok) ==
  IF st.erro \/ k > Len(ficha) THEN st
  ELSE LET fi == ficha[k]
       IN  IF ~FaseConsumida(fi, rem.tipo)
           THEN baixa_ficha(st, r, rem, ficha, k + 1, qtd_ok)
           ELSE LET qt_baixa == Quantize4(fi.quantidade, qtd_ok)
                    s == saida(st.db, fi.insumo, qt_baixa, rem.costureira, r)
                IN  baixa_ficha([st EXCEPT !.db = s.db, !.erro = s.erro],
                                r, rem, ficha, k + 1, qtd_ok)

\* a credit of the planned quantity instead of the accepted one
EntradaProdutoAcabado_prevista(db, r, rem, it) ==
  LET var == db.variacoes[it.variacao]
  IN  [db EXCEPT
        !.variacoes[it.variacao].estoque_atual = @ + it.qtd_prevista,
        !.movimentos = Append(@, MovimentoEstoque("E", "", it.variacao,
                                  it.qtd_prevista * 100, var.custo_unitario,
                                  rem.costureira, r))]

\* entrada de produto acabado (COSTURA)
EntradaProdutoAcabado(db, r, rem, it) ==
  LET var == db.variacoes[it.variacao]
  IN  [db EXCEPT
        !.variacoes[it.variacao].estoque_atual = @ + it.qtd_ok,
        !.movimentos = Append(@, MovimentoEstoque("E", "", it.variacao,
                                  it.qtd_ok * 100, var.custo_unitario,
                                  rem.costureira, r))]

\* the body of the loop "for it in itens" for one line
finalizar_item(st, r, rem, it) ==
  IF it.qtd_ok <= 0 THEN st
  ELSE LET pago == [st EXCEPT !.total_pagto =
                      @ + preco_unitario_efetivo(it, rem) * it.qtd_ok]
       IN  IF rem.tipo = "CORTE"
           THEN baixa_ficha(pago, r, rem, Ficha(it.variacao), 1, it.qtd_ok)
           ELSE IF rem.tipo = "COSTURA"
           THEN LET b == baixa_ficha(pago, r, rem, Ficha(it.variacao), 1, it.qtd_ok)
                IN  IF b.erro THEN b
                    ELSE [b EXCEPT !.db = EntradaProdutoAcabado(b.db, r, rem, it)]
           ELSE pago

RECURSIVE finalizar_itens(_, _, _, _)
finalizar_itens(st, r, rem, k) ==
  IF st.erro \/ k > Len(rem.itens) THEN st
  ELSE finalizar_itens(finalizar_item(st, r, rem, rem.itens[k]), r, rem, k + 1)

\* a plain create, whether or not the shipment has a payment
update_or_create_sempre_cria(db, r, rem, valor_total) ==
  [db EXCEPT !.pagamentos = Append(@,
     [remessa |-> r, costureira |-> rem.costureira,
      valor_total |-> valor_total, status |-> "PENDENTE", pago_em |-> 0])]

\* an update that adds the new amount to the stored one
update_or_create_acumula(db, r, rem, valor_total) ==
  LET achados == {p \in DOMAIN db.pagamentos : db.pagamentos[p].remessa = r}
  IN  IF achados = {}
      THEN [db EXCEPT !.pagamentos = Append(@,
              [remessa |-> r, costureira |-> rem.costureira,
               valor_total |-> valor_total, status |-> "PENDENTE", pago_em |-> 0])]
      ELSE LET p == CHOOSE x \in achados : TRUE
           IN  [db EXCEPT !.pagamentos[p] =
                  [@ EXCEPT !.costureira = rem.costureira,
                            !.valor_total = @ + valor_total,
                            !.status = "PENDENTE"]]

\* get_or_create in its place: an existing payment keeps its amount
update_or_create_so_cria(db, r, rem, valor_total) ==
  LET achados == {p \in DOMAIN db.pagamentos : db.pagamentos[p].remessa = r}
  IN  IF achados = {}
      THEN [db EXCEPT !.pagamentos = Append(@,
              [remessa |-> r, costureira |-> rem.costureira,
               valor_total |-> valor_total, status |-> "PENDENTE", pago_em |-> 0])]
      ELSE db

\* PagamentoCostureira.objects.update_or_create(remessa=self, defaults=...)
update_or_create(db, r, rem, valor_total) ==
  LET achados == {p \in DOMAIN db.pagamentos : db.pagamentos[p].remessa = r}
  IN  IF achados = {}
      THEN [db EXCEPT !.pagamentos = Append(@,
              [remessa |-> r, costureira |-> rem.costureira,
               valor_total |-> valor_total, status |-> "PENDENTE", pago_em |-> 0])]
      ELSE LET p == CHOOSE x \in achados : TRUE
           IN  [db EXCEPT !.pagamentos[p] =
                  [@ EXCEPT !.costureira = rem.costureira,
                            !.valor_total = valor_total,
                            !.status = "PENDENTE"]]

\* a finalization that stamps recebido_em on every call
finalizar_corpo_carimba_sempre(db, r, agora) ==
  LET rem0 == db.remessas[r]
      st == finalizar_itens([db |-> db, erro |-> FALSE, total_pagto |-> 0],
                            r, rem0, 1)
      status == atualizar_status_por_itens(agora, rem0.itens)
      salvo == [st.db EXCEPT !.remessas[r].status = status,
                             !.remessas[r].recebido_em = agora]
  IN  IF st.erro THEN st
      ELSE IF st.total_pagto > 0
      THEN [st EXCEPT !.db = update_or_create(salvo, r, rem0,
                                              Quantize2(st.total_pagto))]
      ELSE [st EXCEPT !.db = salvo]

\* the body of Remessa.finalizar_recebimento, run on db; agora = timezone.now()
finalizar_corpo(db, r, agora) ==
  LET rem0 == db.remessas[r]
      recebido_em == IF rem0.recebido_em = 0 THEN agora ELSE rem0.recebido_em
      st == finalizar_itens([db |-> db, erro |-> FALSE, total_pagto |-> 0],
                            r, rem0, 1)
      status == atualizar_status_por_itens(recebido_em, rem0.itens)
      salvo == [st.db EXCEPT !.remessas[r].status = status,
                             !.remessas[r].recebido_em = recebido_em]
  IN  IF st.erro THEN st
      ELSE IF st.total_pagto > 0
      THEN [st EXCEPT !.db = update_or_create(salvo, r, rem0,
                                              Quantize2(st.total_pagto))]
      ELSE [st EXCEPT !.db = salvo]

\* a block without rollback: the writes made before the exception stay
atomic_sem_rollback(db, st) == st.db

\* @transaction.atomic: what is committed when the block ends in state st
atomic(db, st) == IF st.erro THEN db ELSE st.db

\* Remessa.finalizar_recebimento; parcial = rows written before it ended
finalizar_recebimento(db, r, agora) ==
  LET st == finalizar_corpo(db, r, agora)
  IN  [db |-> atomic(db, st), erro |-> st.erro, total_pagto |-> st.total_pagto,
       parcial |-> Len(st.db.movimentos) - Len(db.movimentos)]

(***************************************************************************)
(* Orders (Pedido) and the inputs of the screens.                          *)
(***************************************************************************)
\* ItemPedido rows of each order: (variacao, quantidade in 1/100)
ItensPedido(p) ==
  IF p = 1 THEN << [variacao |-> "v1", quantidade |-> 100],
                   [variacao |-> "v2", quantidade |-> 100] >>
  ELSE << [variacao |-> "v2", quantidade |-> 50],
          [variacao |-> "v2", quantidade |-> 100] >>

\* quantities and unit costs entered on the material receipt screen (1/10000)
QtdEntrada == {0, 3000, 10000}
CustoEntrada == {4000, 10000}
\* quantities of a direct Insumo.saida call (1/10000)
QtdSaida == {5000, 20000}
\* quantity and labour cost entered on the production order screen (1/100)
QtdOP == {50, 100}
MaoDeObra == {0, 150}

\* rows the receipt screen can post for one line
LineForms ==
  { [qtd_ok |-> 0,   qtd_perda |-> 0,   qtd_extravio |-> 0,  qtd_devolvida |-> 0,  preco_unit |-> 0],
    [qtd_ok |-> 50,  qtd_perda |-> 0,   qtd_extravio |-> 0,  qtd_devolvida |-> 0,  preco_unit |-> 25],
    [qtd_ok |-> 100, qtd_perda |-> 0,   qtd_extravio |-> 0,  qtd_devolvida |-> 0,  preco_unit |-> 0],
    [qtd_ok |-> 100, qtd_perda |-> 50,  qtd_extravio |-> 25, qtd_devolvida |-> 25, preco_unit |-> 0] }

\* a new RemessaItem (defaults of the model fields)
RemessaItem(variacao, qtd_prevista) ==
  [variacao |-> variacao, qtd_prevista |-> qtd_prevista, qtd_ok |-> 0,
   qtd_perda |-> 0, qtd_extravio |-> 0, qtd_devolvida |-> 0, preco_unit |-> 0]

\* a new Remessa (defaults of the model fields); numero stands for the clock
\* second gerar_numero_remessa read, produto "" for no grouping product
Remessa(numero, tipo, costureira, produto, itens) ==
  [numero |-> numero, tipo |-> tipo, costureira |-> costureira, produto |-> produto,
   recebido_em |-> 0, status |-> "ENVIADA", itens |-> itens]

\* a request that has not read anything yet
Ociosa == [pc |-> "ociosa"]

Ultimo(op, alvo, erro, parcial, valor) ==
  [op |-> op, alvo |-> alvo, erro |-> erro, parcial |-> parcial, valor |-> valor]

\* the database with material stocks e1 (m1), e3 (m3) and the shipments rems
InitCom(e1, e3, rems) ==
  /\ insumos = [m \in Insumos |->
                  IF m = "m1" THEN [estoque_atual |-> e1, custo_medio |-> 10000]
                  ELSE IF m = "m2" THEN [estoque_atual |-> 20000, custo_medio |-> 5000]
                  ELSE [estoque_atual |-> e3, custo_medio |-> 2000]]
  /\ variacoes = [v \in Variacoes |-> [estoque_atual |-> 0, custo_unitario |-> 0]]
  /\ remessas = rems
  /\ pagamentos = <<>>
  /\ movimentos = <<>>
  /\ pedidos = [p \in {1, 2} |-> "PEN"]
  /\ ultimo = Ultimo("init", 0, FALSE, 0, 0)
  /\ requisicoes = [q \in 1..NumRequisicoes |-> Ociosa]

\* one shipment with two lines
UmaRemessa(t1) ==
  << Remessa(1, t1, "c1", "p1", << RemessaItem("v1", 200), RemessaItem("v2", 100) >>) >>

\* two shipments of different contractors, one line each
DuasRemessas(t1, t2) ==
  << Remessa(1, t1, "c1", "p1", << RemessaItem("v1", 200) >>),
     Remessa(2, t2, "c2", "", << RemessaItem("v1", 50) >>) >>

Init ==
  \/ \E t1 \in TIPOS : InitCom(20000, 3000, UmaRemessa(t1))
  \/ InitCom(20000, 3000, DuasRemessas("CORRECAO", "CORRECAO"))

\* the database before any shipment
InitCadeiaVazia == InitCom(20000, 3000, <<>>)

InitEstoques ==
  \E e1 \in {10000, 30000}, e3 \in {0, 10000} : InitCom(e1, e3, UmaRemessa("CORTE"))

\* what an operation commits
Commit(db) ==
  /\ insumos' = db.insumos
  /\ variacoes' = db.variacoes
  /\ remessas' = db.remessas
  /\ pagamentos' = db.pagamentos
  /\ movimentos' = db.movimentos

(***************************************************************************)
(* Screens of the material ledger and of production orders.                *)
(***************************************************************************)
\* views.insumo_entrada
InsumoEntrada(m, quantidade, custo_unit) ==
  /\ Len(movimentos) < MaxMov
  /\ insumos[m].estoque_atual + quantidade <= MaxEstoque
  /\ \E banco \in Bancos : Commit(entrada(DB, banco, m, quantidade, custo_unit, "", 0))
  /\ ultimo' = Ultimo("entrada", m, FALSE, 1, quantidade) @@ [custo_unit |-> custo_unit]
  /\ UNCHANGED <<pedidos, requisicoes>>

\* values typed into the stock and cost fields of the material form (1/10000)
EstoqueDigitado == {0, 10000}
CustoDigitado == {4000, 10000}

\* views.insumo_update (POST): InsumoForm carries estoque_atual and custo_medio
\* and form.save() stores what was typed
InsumoUpdate(m, estoque_atual, custo_medio) ==
  /\ insumos' = [insumos EXCEPT ![m] = [estoque_atual |-> estoque_atual,
                                        custo_medio |-> custo_medio]]
  /\ ultimo' = Ultimo("insumo_update", m, FALSE, 0, 0)
  /\ UNCHANGED <<variacoes, remessas, pagamentos, movimentos, pedidos, requisicoes>>

\* a call of Insumo.saida outside any transaction
InsumoSaida(m, quantidade) ==
  LET s == saida(DB, m, quantidade, "", 0)
  IN  /\ Len(movimentos) < MaxMov
      /\ Commit(s.db)
      /\ ultimo' = Ultimo("saida", m, s.erro, IF s.erro THEN 0 ELSE 1, quantidade)
      /\ UNCHANGED <<pedidos, requisicoes>>

\* views.op_create: form.save() then op.processar(), no transaction
OpCreate(v, quantidade, mao) ==
  LET op == [variacao |-> v, quantidade |-> quantidade,
             custo_mao_de_obra |-> mao, custo_indireto_rateado |-> 0]
      res == processar(DB, op, variacoes[v])
  IN  /\ Len(res.db.movimentos) <= MaxMov
      /\ Commit(res.db)
      /\ ultimo' = Ultimo("op_create", op, res.erro,
                          Len(res.db.movimentos) - Len(movimentos), res.custo_unit)
      /\ UNCHANGED <<pedidos, requisicoes>>

\* the loop of pedido_gerar_ops; vars0 holds the variants as the queryset loaded them
RECURSIVE gerar_ops(_, _, _, _)
gerar_ops(st, itens, k, vars0) ==
  IF st.erro \/ k > Len(itens) THEN st
  ELSE LET it == itens[k]
           op == [variacao |-> it.variacao, quantidade |-> it.quantidade,
                  custo_mao_de_obra |-> 0, custo_indireto_rateado |-> 0]
           res == processar(st.db, op, vars0[it.variacao])
       IN  gerar_ops([db |-> res.db, erro |-> res.erro], itens, k + 1, vars0)

\* views.pedido_gerar_ops, @transaction.atomic
PedidoGerarOps(p) ==
  LET st == gerar_ops([db |-> DB, erro |-> FALSE], ItensPedido(p), 1, variacoes)
  IN  /\ Len(st.db.movimentos) <= MaxMov
      /\ Commit(atomic(DB, st))
      /\ pedidos' = IF st.erro THEN pedidos ELSE [pedidos EXCEPT ![p] = "PROD"]
      /\ ultimo' = Ultimo("pedido_gerar_ops", p, st.erro,
                          Len(st.db.movimentos) - Len(movimentos), 0)
      /\ UNCHANGED requisicoes

\* the second loop of pedido_faturar; vars0 holds the variants as the
\* queryset loaded them (select_related builds one instance per line), and
\* save(update_fields=["estoque_atual"]) writes the stock of that instance
RECURSIVE faturar_baixa(_, _, _, _)
faturar_baixa(db, itens, k, vars0) ==
  IF k > Len(itens) THEN db
  ELSE LET it == itens[k]
           v == vars0[it.variacao]
       IN  faturar_baixa(
             [db EXCEPT
               !.variacoes[it.variacao].estoque_atual = v.estoque_atual - it.quantidade,
               !.movimentos = Append(@, MovimentoEstoque("S", "", it.variacao,
                                         it.quantidade * 100, v.custo_unitario, "", 0))],
             itens, k + 1, vars0)

\* views.pedido_faturar: refused when a line asks for more than its variant
\* has, otherwise every line is debited and the order becomes FAT
PedidoFaturar(p) ==
  LET itens == ItensPedido(p)
      faltas == {k \in 1..Len(itens) :
                   variacoes[itens[k].variacao].estoque_atual < itens[k].quantidade}
  IN  /\ Len(movimentos) + Len(itens) <= MaxMov
      /\ IF faltas # {}
         THEN /\ Commit(DB)
              /\ UNCHANGED pedidos
              /\ ultimo' = Ultimo("pedido_faturar", p, TRUE, 0, 0)
         ELSE /\ Commit(faturar_baixa(DB, itens, 1, variacoes))
              /\ pedidos' = [pedidos EXCEPT ![p] = "FAT"]
              /\ ultimo' = Ultimo("pedido_faturar", p, FALSE, Len(itens), 0)
      /\ UNCHANGED requisicoes

(***************************************************************************)
(* Shipment receipt and contractor payments.                               *)
(***************************************************************************)
RECURSIVE MaxDe(_)
MaxDe(S) == IF S = {} THEN 0
            ELSE LET x == CHOOSE y \in S : TRUE
                     m == MaxDe(S \ {x})
                 IN  IF x > m THEN x ELSE m

\* timezone.now(): a reading later than every timestamp stored so far
Agora ==
  1 + MaxDe({remessas[r].recebido_em : r \in DOMAIN remessas}
            \cup {pagamentos[p].pago_em : p \in DOMAIN pagamentos})

\* RemessaReceiveItemForm.clean: negative values and a sum above the planned
\* quantity are form errors
FormValido(it, f) ==
  /\ f.qtd_ok >= 0 /\ f.qtd_perda >= 0 /\ f.qtd_extravio >= 0 /\ f.qtd_devolvida >= 0
  /\ ~(f.qtd_ok + f.qtd_perda + f.qtd_extravio + f.qtd_devolvida > it.qtd_prevista)

\* formset.save(): the posted fields replace those of each line
SalvarFormset(itens, forms) ==
  [i \in 1..Len(itens) |->
     [itens[i] EXCEPT !.qtd_ok = forms[i].qtd_ok,
                      !.qtd_perda = forms[i].qtd_perda,
                      !.qtd_extravio = forms[i].qtd_extravio,
                      !.qtd_devolvida = forms[i].qtd_devolvida,
                      !.preco_unit = forms[i].preco_unit]]

\* views.remessa_receive (POST): formset.save(), then finalizar_recebimento in
\* a savepoint; an exception of the finalization is caught and the view returns
RemessaReceive(r, forms) ==
  LET salvo == [DB EXCEPT !.remessas[r].itens = SalvarFormset(@, forms)]
      fin == finalizar_recebimento(salvo, r, Agora)
  IN  /\ \A i \in 1..Len(remessas[r].itens) : FormValido(remessas[r].itens[i], forms[i])
      /\ remessas[r].recebido_em = 0 => Agora <= MaxRelogio
      /\ Len(movimentos) + fin.parcial <= MaxMov
      /\ Commit(fin.db)
      /\ ultimo' = Ultimo("remessa_receive", r, fin.erro, fin.parcial, fin.total_pagto)
      /\ UNCHANGED <<pedidos, requisicoes>>

\* views.remessa_receive (POST) when a posted row has a form error:
\* formset.is_valid() is False, nothing is saved and the screen is shown again
RemessaReceiveInvalido(r, forms) ==
  /\ \E i \in 1..Len(remessas[r].itens) : ~FormValido(remessas[r].itens[i], forms[i])
  /\ ultimo' = Ultimo("remessa_receive_invalido", r, TRUE, 0, forms)
  /\ UNCHANGED <<insumos, variacoes, remessas, pagamentos, movimentos, pedidos,
                 requisicoes>>

\* the change form of admin.RemessaAdmin saved with the quantities of the
\* RemessaItemInline rows edited: the rows are stored as typed
AdminSalvarItens(r, forms) ==
  /\ remessas[r].itens # SalvarFormset(remessas[r].itens, forms)
  /\ remessas' = [remessas EXCEPT ![r].itens = SalvarFormset(@, forms)]
  /\ ultimo' = Ultimo("admin_itens", r, FALSE, 0, 0)
  /\ UNCHANGED <<insumos, variacoes, pagamentos, movimentos, pedidos, requisicoes>>

\* admin.RemessaAdmin.finalizar_recebimento for one selected shipment
AdminFinalizar(r) ==
  LET fin == finalizar_recebimento(DB, r, Agora)
  IN  /\ remessas[r].recebido_em = 0 => Agora <= MaxRelogio
      /\ Len(movimentos) + fin.parcial <= MaxMov
      /\ Commit(fin.db)
      /\ ultimo' = Ultimo("admin_finalizar", r, fin.erro, fin.parcial, fin.total_pagto)
      /\ UNCHANGED <<pedidos, requisicoes>>

\* PagamentoCostureira.objects.get_or_create(remessa=r, defaults=...) followed by
\* the update of valor_total when the row existed
get_or_create_valor(pags, r, rem, total) ==
  LET achados == {p \in DOMAIN pags : pags[p].remessa = r}
  IN  IF achados = {}
      THEN Append(pags, [remessa |-> r, costureira |-> rem.costureira,
                         valor_total |-> total, status |-> "PENDENTE", pago_em |-> 0])
      ELSE LET p == CHOOSE x \in achados : TRUE
           IN  [pags EXCEPT ![p].valor_total = total]

\* admin.RemessaAdmin.gerar_pagamento for one selected shipment
GerarPagamento(r) ==
  LET total == total_a_pagar(remessas[r])
  IN  /\ total > 0
      /\ pagamentos' = get_or_create_valor(pagamentos, r, remessas[r], total)
      /\ ultimo' = Ultimo("gerar_pagamento", r, FALSE, 0, total)
      /\ UNCHANGED <<insumos, variacoes, remessas, movimentos, pedidos, requisicoes>>

\* views.pagamento_marcar_pago
MarcarPago(p) ==
  /\ pagamentos[p].status # "PAGO"
  /\ Agora <= MaxRelogio
  /\ pagamentos' = [pagamentos EXCEPT ![p].status = "PAGO", ![p].pago_em = Agora]
  /\ ultimo' = Ultimo("marcar_pago", p, FALSE, 0, 0)
  /\ UNCHANGED <<insumos, variacoes, remessas, movimentos, pedidos, requisicoes>>

\* views.pagamento_marcar_pendente
MarcarPendente(p) ==
  /\ pagamentos[p].status # "PENDENTE"
  /\ pagamentos' = [pagamentos EXCEPT ![p].status = "PENDENTE", ![p].pago_em = 0]
  /\ ultimo' = Ultimo("marcar_pendente", p, FALSE, 0, 0)
  /\ UNCHANGED <<insumos, variacoes, remessas, movimentos, pedidos, requisicoes>>

\* admin.PagamentoCostureiraAdmin.marcar_pago on the selected payments
AdminMarcarPago(sel) ==
  /\ sel # {}
  /\ Agora <= MaxRelogio
  /\ pagamentos' = [p \in DOMAIN pagamentos |->
                      IF p \in sel
                      THEN [pagamentos[p] EXCEPT !.status = "PAGO", !.pago_em = Agora]
                      ELSE pagamentos[p]]
  /\ ultimo' = Ultimo("admin_marcar_pago", 0, FALSE, 0, 0)
  /\ UNCHANGED <<insumos, variacoes, remessas, movimentos, pedidos, requisicoes>>

(***************************************************************************)
(* The next shipment of the chain and the admin change form.               *)
(***************************************************************************)
\* gerar_numero_remessa: the number is built from the clock second, so it is
\* that of the newest shipment when less than a second has passed since
gerar_numero_remessa ==
  LET u == MaxDe({remessas[r].numero : r \in DOMAIN remessas}) IN {u, u + 1}

\* a successor with lines only for the source lines that have pieces received
gerar_remessa_posterior_so_recebidas(db, r, tipo, costureira, numero) ==
  LET rem == db.remessas[r]
      recebidas == SelectSeq(rem.itens, LAMBDA it : it.qtd_ok > 0)
      r2 == Remessa(numero, tipo,
                    IF costureira # "" THEN costureira ELSE rem.costureira,
                    rem.produto,
                    [i \in 1..Len(recebidas) |->
                       RemessaItem(recebidas[i].variacao, recebidas[i].qtd_ok)])
  IN  IF \E k \in DOMAIN db.remessas : db.remessas[k].numero = numero
      THEN [db |-> db, erro |-> TRUE]
      ELSE [db |-> [db EXCEPT !.remessas = Append(@, r2)], erro |-> FALSE]

\* Remessa.gerar_remessa_posterior with the number its create call drew.
\* The field default has filled numero before Remessa.save runs, so save
\* takes its plain branch and the unique index on numero refuses a number
\* already taken (IntegrityError)
gerar_remessa_posterior(db, r, tipo, costureira, numero) ==
  LET rem == db.remessas[r]
      r2 == Remessa(numero, tipo,
                    IF costureira # "" THEN costureira ELSE rem.costureira,
                    rem.produto,
                    [i \in 1..Len(rem.itens) |->
                       RemessaItem(rem.itens[i].variacao, rem.itens[i].qtd_ok)])
  IN  IF \E k \in DOMAIN db.remessas : db.remessas[k].numero = numero
      THEN [db |-> db, erro |-> TRUE]
      ELSE [db |-> [db EXCEPT !.remessas = Append(@, r2)], erro |-> FALSE]

\* views.remessa_generate_next: POST fields tipo and costureira_id ("" when
\* absent)
RemessaGenerateNext(r, tipo, costureira_id) ==
  LET next_tipo == IF tipo # "" THEN tipo
                   ELSE IF remessas[r].tipo = "CORTE" THEN "COSTURA" ELSE ""
      pedido == [tipo |-> next_tipo, costureira |-> costureira_id]
  IN  /\ Len(remessas) < MaxRemessas
      /\ IF next_tipo = ""
         THEN /\ Commit(DB)
              /\ ultimo' = Ultimo("generate_next", r, TRUE, 0, pedido)
         ELSE \E numero \in gerar_numero_remessa :
                LET res == gerar_remessa_posterior(DB, r, next_tipo, costureira_id, numero)
                IN  /\ Commit(res.db)
                    /\ ultimo' = Ultimo("generate_next", r, res.erro, 0, pedido)
      /\ UNCHANGED <<pedidos, requisicoes>>

\* admin.RemessaAdmin.gerar_remessa_costura for one selected shipment
AdminGerarRemessaCostura(r) ==
  /\ Len(remessas) < MaxRemessas
  /\ IF remessas[r].tipo # "CORTE"
     THEN /\ Commit(DB)
          /\ ultimo' = Ultimo("admin_gerar_costura", r, TRUE, 0,
                              [tipo |-> "", costureira |-> ""])
     ELSE \E numero \in gerar_numero_remessa :
            LET res == gerar_remessa_posterior(DB, r, "COSTURA", "", numero)
            IN  /\ Commit(res.db)
                /\ ultimo' = Ultimo("admin_gerar_costura", r, res.erro, 0,
                                    [tipo |-> "COSTURA", costureira |-> ""])
  /\ UNCHANGED <<pedidos, requisicoes>>

\* the choices of Remessa.status
STATUS == {"ENVIADA", "PARCIAL", "CONCLUIDO", "CANCELADA"}

\* the change form of admin.RemessaAdmin saved with another status chosen
AdminAlterarStatus(r, status) ==
  /\ status # remessas[r].status
  /\ remessas' = [remessas EXCEPT ![r].status = status]
  /\ ultimo' = Ultimo("admin_change", r, FALSE, 0, 0)
  /\ UNCHANGED <<insumos, variacoes, pagamentos, movimentos, pedidos, requisicoes>>

(***************************************************************************)
(* Specifications.                                                         *)
(***************************************************************************)
\* shipments, receipts and contractor payments
Next ==
  \/ \E r \in DOMAIN remessas :
       \E forms \in [1..Len(remessas[r].itens) -> LineForms] : RemessaReceive(r, forms)
  \/ \E r \in DOMAIN remessas : AdminFinalizar(r)
  \/ \E r \in DOMAIN remessas : GerarPagamento(r)
  \/ \E p \in DOMAIN pagamentos : MarcarPago(p)
  \/ \E p \in DOMAIN pagamentos : MarcarPendente(p)
  \/ \E sel \in SUBSET DOMAIN pagamentos : AdminMarcarPago(sel)

Spec == Init /\ [][Next]_vars

\* the material ledger alone
NextLedger ==
  \/ \E m \in Insumos, q \in QtdEntrada, c \in CustoEntrada :
       Len(movimentos) < MaxMovLedger /\ InsumoEntrada(m, q, c)
  \/ \E m \in Insumos, q \in QtdSaida :
       Len(movimentos) < MaxMovLedger /\ InsumoSaida(m, q)

SpecLedger == InitEstoques /\ [][NextLedger]_vars

\* the material ledger and the material form
NextCadastro ==
  \/ \E m \in Insumos, q \in QtdEntrada, c \in CustoEntrada :
       Len(movimentos) < MaxMovCadastro /\ InsumoEntrada(m, q, c)
  \/ \E m \in Insumos, q \in QtdSaida :
       Len(movimentos) < MaxMovCadastro /\ InsumoSaida(m, q)
  \/ \E m \in Insumos, e \in EstoqueDigitado, c \in CustoDigitado : InsumoUpdate(m, e, c)

SpecCadastro == InitEstoques /\ [][NextCadastro]_vars

\* the receipt screen with valid and with rejected rows
NextRecebimento ==
  \/ \E r \in DOMAIN remessas :
       \E forms \in [1..Len(remessas[r].itens) -> LineForms] : RemessaReceive(r, forms)
  \/ \E r \in DOMAIN remessas :
       \E forms \in [1..Len(remessas[r].itens) -> LineForms] :
         RemessaReceiveInvalido(r, forms)
  \/ \E r \in DOMAIN remessas :
       \E forms \in [1..Len(remessas[r].itens) -> LineForms] : AdminSalvarItens(r, forms)
  \/ \E r \in DOMAIN remessas : AdminFinalizar(r)

SpecRecebimento == Init /\ [][NextRecebimento]_vars

\* production orders
NextOP ==
  \/ \E v \in Variacoes, q \in QtdOP, mao \in MaoDeObra : OpCreate(v, q, mao)
  \/ \E p \in DOMAIN pedidos : PedidoGerarOps(p)

SpecOP == InitEstoques /\ [][NextOP]_vars

\* production orders and invoicing
NextFaturamento ==
  \/ \E v \in Variacoes, q \in QtdOP, mao \in MaoDeObra : OpCreate(v, q, mao)
  \/ \E p \in DOMAIN pedidos : PedidoFaturar(p)

SpecFaturamento == InitEstoques /\ [][NextFaturamento]_vars

(***************************************************************************)
(* Requests served at the same time. A request reads the rows it works on  *)
(* into model instances and later writes them back with save(); no code    *)
(* path locks a row (no select_for_update, no F() expression).             *)
(***************************************************************************)
\* quantities of the material screens while other requests are in flight
QtdConc == {3000, 10000}
CustoConc == {4000}

\* views.insumo_entrada up to the valid form: the material row is loaded
InsumoEntradaCarregar(q, m, quantidade, custo_unit) ==
  /\ requisicoes[q].pc = "ociosa"
  /\ Len(movimentos) < MaxMovConc
  /\ requisicoes' = [requisicoes EXCEPT ![q] =
        [pc |-> "carregada", op |-> "entrada", m |-> m, quantidade |-> quantidade,
         custo_unit |-> custo_unit, insumo |-> insumos[m]]]
  /\ UNCHANGED <<insumos, variacoes, remessas, pagamentos, movimentos, pedidos, ultimo>>

\* views.insumo_entrada from insumo.entrada(...) on: the loaded instance is
\* changed and saved (autocommit), the movement is created
InsumoEntradaGravar(q) ==
  LET req == requisicoes[q]
  IN  /\ req.pc = "carregada" /\ req.op = "entrada"
      /\ \E banco \in Bancos :
           Commit(entrada([DB EXCEPT !.insumos[req.m] = req.insumo], banco, req.m,
                          req.quantidade, req.custo_unit, "", 0))
      /\ requisicoes' = [requisicoes EXCEPT ![q] = Ociosa]
      /\ ultimo' = Ultimo("entrada", req.m, FALSE, 1, req.quantidade)
                      @@ [custo_unit |-> req.custo_unit]
      /\ UNCHANGED pedidos

\* the material of a BOM entry is loaded (item.insumo) for an issue
InsumoSaidaCarregar(q, m, quantidade) ==
  /\ requisicoes[q].pc = "ociosa"
  /\ Len(movimentos) < MaxMovConc
  /\ requisicoes' = [requisicoes EXCEPT ![q] =
        [pc |-> "carregada", op |-> "saida", m |-> m, quantidade |-> quantidade,
         custo_unit |-> 0, insumo |-> insumos[m]]]
  /\ UNCHANGED <<insumos, variacoes, remessas, pagamentos, movimentos, pedidos, ultimo>>

\* Insumo.saida on the loaded instance (autocommit)
InsumoSaidaGravar(q) ==
  LET req == requisicoes[q]
      s == saida([DB EXCEPT !.insumos[req.m] = req.insumo], req.m, req.quantidade, "", 0)
  IN  /\ req.pc = "carregada" /\ req.op = "saida"
      /\ Commit(IF s.erro THEN DB ELSE s.db)
      /\ requisicoes' = [requisicoes EXCEPT ![q] = Ociosa]
      /\ ultimo' = Ultimo("saida", req.m, s.erro, IF s.erro THEN 0 ELSE 1, req.quantidade)
      /\ UNCHANGED pedidos

\* receipts and issues of materials by requests served at the same time
NextConcLedger ==
  \/ \E q \in DOMAIN requisicoes, m \in Insumos, qt \in QtdConc, c \in CustoConc :
       InsumoEntradaCarregar(q, m, qt, c)
  \/ \E q \in DOMAIN requisicoes : InsumoEntradaGravar(q)
  \/ \E q \in DOMAIN requisicoes, m \in Insumos, qt \in QtdConc :
       InsumoSaidaCarregar(q, m, qt)
  \/ \E q \in DOMAIN requisicoes : InsumoSaidaGravar(q)

SpecConcLedger == InitEstoques /\ [][NextConcLedger]_vars

\* shipments whose line quantities were entered (RemessaItemInline of the
\* admin) and that were not finalized yet
InitRecebidas ==
  \E t1 \in TIPOS, forms \in [1..2 -> LineForms] :
    /\ \A i \in 1..2 : FormValido(UmaRemessa(t1)[1].itens[i], forms[i])
    /\ \E i \in 1..2 : forms[i].qtd_ok > 0
    /\ InitCom(20000, 3000,
               << [UmaRemessa(t1)[1] EXCEPT !.itens = SalvarFormset(@, forms)] >>)

\* the admin action on shipment r up to the evaluation of the line queryset:
\* the shipment, its lines, their variants, BOM entries and materials are
\* read; base is what the request has seen
FinalizarCarregar(q, r, banco) ==
  /\ requisicoes[q].pc = "ociosa"
  /\ \A o \in DOMAIN requisicoes :
       requisicoes[o].pc # "ociosa" => requisicoes[o].banco = banco
  /\ requisicoes' = [requisicoes EXCEPT ![q] =
        [pc |-> "lida", op |-> "finalizar", r |-> r, banco |-> banco, base |-> DB,
         travada |-> FALSE, erro |-> FALSE, bloqueada |-> FALSE]]
  /\ UNCHANGED <<insumos, variacoes, remessas, pagamentos, movimentos, pedidos, ultimo>>

\* what the transaction of a finalization that ended in st writes over the
\* committed database db: the rows of the materials it issued and the stock of
\* the variants it credited as computed on the instances it had read, its
\* movements, status and recebido_em of the shipment, and the payment
GravarSobre(db, base, r, st) ==
  LET novos == SubSeq(st.db.movimentos, Len(base.movimentos) + 1,
                      Len(st.db.movimentos))
      baixados == {novos[i].insumo : i \in {j \in 1..Len(novos) : novos[j].tipo = "S"}}
      creditadas == {novos[i].variacao : i \in {j \in 1..Len(novos) : novos[j].tipo = "E"}}
      recebido_em == st.db.remessas[r].recebido_em
      escrito ==
        [insumos |-> [m \in Insumos |->
                        IF m \in baixados THEN st.db.insumos[m] ELSE db.insumos[m]],
         variacoes |-> [v \in Variacoes |->
                          IF v \in creditadas
                          THEN [db.variacoes[v] EXCEPT
                                  !.estoque_atual = st.db.variacoes[v].estoque_atual]
                          ELSE db.variacoes[v]],
         remessas |-> [db.remessas EXCEPT
                         ![r].status = atualizar_status_por_itens(recebido_em,
                                                                  db.remessas[r].itens),
                         ![r].recebido_em = recebido_em],
         pagamentos |-> db.pagamentos,
         movimentos |-> db.movimentos \o novos]
  IN  IF st.total_pagto > 0
      THEN update_or_create(escrito, r, base.remessas[r], Quantize2(st.total_pagto))
      ELSE escrito

\* the rest of the finalization and its commit. Under PostgreSQL (READ
\* COMMITTED) the writes go over whatever was committed meanwhile; under
\* SQLite a transaction that read before another one committed cannot write
\* (see FinalizarBloqueada)
FinalizarGravar(q) ==
  LET req == requisicoes[q]
      st == finalizar_corpo(req.base, req.r, Agora)
  IN  /\ req.pc = "lida"
      /\ req.banco = "postgresql" \/ ~req.travada
      /\ Commit(IF st.erro THEN DB ELSE GravarSobre(DB, req.base, req.r, st))
      /\ requisicoes' = [o \in DOMAIN requisicoes |->
            IF o = q THEN [req EXCEPT !.pc = "fim", !.erro = st.erro]
            ELSE IF requisicoes[o].pc = "lida" /\ ~st.erro
            THEN [requisicoes[o] EXCEPT !.travada = TRUE]
            ELSE requisicoes[o]]
      /\ ultimo' = Ultimo("admin_finalizar", req.r, st.erro,
                          Len(st.db.movimentos) - Len(req.base.movimentos),
                          st.total_pagto)
      /\ UNCHANGED pedidos

\* SQLite: the first write of a transaction whose read lock predates another
\* transaction's commit raises OperationalError (database is locked); the
\* admin action reports it and nothing is written
FinalizarBloqueada(q) ==
  LET req == requisicoes[q]
  IN  /\ req.pc = "lida" /\ req.banco = "sqlite3" /\ req.travada
      /\ requisicoes' = [requisicoes EXCEPT ![q] =
            [req EXCEPT !.pc = "fim", !.erro = TRUE, !.bloqueada = TRUE]]
      /\ ultimo' = Ultimo("admin_finalizar", req.r, TRUE, 0, 0)
      /\ UNCHANGED <<insumos, variacoes, remessas, pagamentos, movimentos, pedidos>>

\* finalizations by requests served at the same time
NextConcFinalizar ==
  \/ \E q \in DOMAIN requisicoes, r \in DOMAIN remessas, banco \in Bancos :
       FinalizarCarregar(q, r, banco)
  \/ \E q \in DOMAIN requisicoes : FinalizarGravar(q)
  \/ \E q \in DOMAIN requisicoes : FinalizarBloqueada(q)

SpecConcFinalizar == InitRecebidas /\ [][NextConcFinalizar]_vars

\* chains of shipments whose first one has its receipt lines entered
NextCadeia ==
  \/ \E r \in DOMAIN remessas : AdminFinalizar(r)
  \/ \E r \in DOMAIN remessas, tipo \in TIPOS \cup {""}, c \in {"", "c2"} :
       RemessaGenerateNext(r, tipo, c)
  \/ \E r \in DOMAIN remessas : AdminGerarRemessaCostura(r)
  \/ \E r \in DOMAIN remessas, status \in STATUS : AdminAlterarStatus(r, status)

SpecCadeia == InitRecebidas /\ [][NextCadeia]_vars

(***************************************************************************)
(* The phase resolver on its own.                                          *)
(***************************************************************************)
\* the choices of FichaTecnicaItem.fase
FASE_CONSUMO == {"AUTO", "CORTE", "COSTURA"}

\* spellings of the fabric category that differ in case only
GrafiasTecido ==
  { <<"T", "e", "c", "i", "d", "o">>, <<"T", "E", "C", "I", "D", "O">>,
    <<"t", "e", "c", "i", "d", "o">>, <<"t", "E", "c", "I", "d", "O">> }

\* the same word with an acute accent on the last letter
GrafiasAcentuadas ==
  { <<"T", "e", "c", "i", "d", "o_agudo">>, <<"T", "E", "C", "I", "D", "O_agudo">> }

\* category names as typed: fabric in several spellings, near misses, other
\* categories of CategoriaInsumo.seed_basicas and the empty name
Palavras ==
  GrafiasTecido \cup GrafiasAcentuadas \cup
  { <<"t", "e", "c", "i", "d", "o", "s">>, <<"t", "e", "c", " ", "i", "d", "o">>,
    <<"L", "i", "n", "h", "a">>, <<"E", "t", "i", "q", "u", "e", "t", "a">>, <<>> }

Espacos(n) == [i \in 1..n |-> " "]

\* a word with up to MaxEspacos blanks on each side
Cercadas(W) ==
  { Espacos(l) \o w \o Espacos(r) : l \in 0..MaxEspacos, r \in 0..MaxEspacos, w \in W }

\* arguments of _resolver_fase_item: <<>> is None, <<nome>> a str
NomesCategoria == {<<>>} \cup { <<n>> : n \in Cercadas(Palavras) }

\* one call of _resolver_fase_item
ResolverFase(insumo_categoria_nome, fase_config) ==
  /\ ultimo' = Ultimo("resolver_fase_item",
                      [nome |-> insumo_categoria_nome, fase |-> fase_config],
                      FALSE, 0, resolver_fase_item(insumo_categoria_nome, fase_config))
  /\ UNCHANGED <<insumos, variacoes, remessas, pagamentos, movimentos, pedidos,
                 requisicoes>>

NextFase ==
  \E n \in NomesCategoria, f \in FASE_CONSUMO \cup {""} : ResolverFase(n, f)

SpecFase == InitCadeiaVazia /\ [][NextFase]_vars

(***************************************************************************)
(* Properties.                                                             *)
(***************************************************************************)
\* the two entry points of Remessa.finalizar_recebimento
OpsFinalizar == {"remessa_receive", "admin_finalizar"}

FinalizouOk(u) == u.op \in OpsFinalizar /\ ~u.erro
FinalizouComErro(u) == u.op \in OpsFinalizar /\ u.erro

\* the rows appended to the movement log by the step
Novos == SubSeq(movimentos', Len(movimentos) + 1, Len(movimentos'))

\* C1: a finalization that fails (insufficient stock on any material of any
\* line) leaves every material quantity, every variant stock, the movement
\* log, every shipment's status and received_at and every payment as they
\* were before the call.
C1_FinalizarAtomico ==
  [][ FinalizouComErro(ultimo') =>
        /\ insumos' = insumos
        /\ variacoes' = variacoes
        /\ movimentos' = movimentos
        /\ pagamentos' = pagamentos
        /\ \A r \in DOMAIN remessas :
             /\ remessas'[r].status = remessas[r].status
             /\ remessas'[r].recebido_em = remessas[r].recebido_em ]_vars

\* a finalization failed after it had already written movements
C1_Witness == FinalizouComErro(ultimo) /\ ultimo.parcial > 0

\* C2: a Process that fails on some BOM material leaves the variant's stock
\* and unit cost, all material quantities and the movement log unchanged,
\* for the order screen and for the order-to-production generation.
C2_ProcessarTudoOuNada ==
  [][ (ultimo'.op \in {"op_create", "pedido_gerar_ops"} /\ ultimo'.erro) =>
        /\ insumos' = insumos
        /\ variacoes' = variacoes
        /\ movimentos' = movimentos ]_vars

\* C3: under any sequence of receipts and issues no material quantity on
\* hand is negative.
C3_EstoqueNaoNegativo ==
  \A m \in Insumos : insumos[m].estoque_atual >= 0

\* an issue has just taken a material that was also received down to zero
C3_Witness ==
  /\ ultimo.op = "saida" /\ ~ultimo.erro
  /\ insumos[ultimo.alvo].estoque_atual = 0
  /\ \E i \in 1..Len(movimentos) :
       movimentos[i].tipo = "E" /\ movimentos[i].insumo = ultimo.alvo

\* C4: an issue of more than the quantity on hand fails, leaves quantity and
\* weighted-average cost of the material unchanged and appends no movement.
C4_SaidaInsuficienteFalha ==
  [][ (ultimo'.op = "saida"
         /\ ultimo'.valor > insumos[ultimo'.alvo].estoque_atual) =>
        /\ ultimo'.erro
        /\ insumos' = insumos
        /\ movimentos' = movimentos ]_vars

\* an issue of more than the quantity on hand was attempted on a material in stock
C4_Witness ==
  /\ ultimo.op = "saida" /\ ultimo.erro
  /\ insumos[ultimo.alvo].estoque_atual > 0
  /\ ultimo.valor > insumos[ultimo.alvo].estoque_atual

\* sum of the line balances planned - (ok + loss + missing + returned)
SaldoDasLinhas(rem) ==
  SumSeq([i \in 1..Len(rem.itens) |->
            rem.itens[i].qtd_prevista
              - (rem.itens[i].qtd_ok + rem.itens[i].qtd_perda
                 + rem.itens[i].qtd_extravio + rem.itens[i].qtd_devolvida)])

\* C5: in every reachable state the status of a shipment is SENT when
\* received_at is unset, PARTIAL when it is set and the line balances sum to
\* more than zero, DONE when it is set and they sum to zero or less.
C5_StatusFuncaoDasLinhas ==
  \A r \in DOMAIN remessas :
    remessas[r].status =
      IF remessas[r].recebido_em = 0 THEN "ENVIADA"
      ELSE IF SaldoDasLinhas(remessas[r]) > 0 THEN "PARCIAL"
      ELSE "CONCLUIDO"

\* the payments of shipment r
PagamentosDe(pags, r) == {p \in DOMAIN pags : pags[p].remessa = r}

Abs(x) == IF x < 0 THEN -x ELSE x

\* cents is the amount total (1/10000) rounded to two decimals
Arredondado(cents, total) == 2 * Abs(100 * cents - total) <= 100

\* C6: a finalization with a positive total on a shipment whose payment is
\* PAID sets the payment's amount and leaves its status PAID.
C6_PagoPreservado ==
  [][ (FinalizouOk(ultimo') /\ ultimo'.valor > 0) =>
        \A p \in PagamentosDe(pagamentos, ultimo'.alvo) :
          pagamentos[p].status = "PAGO" =>
            /\ pagamentos'[p].status = "PAGO"
            /\ Arredondado(pagamentos'[p].valor_total, ultimo'.valor) ]_vars

\* C7: each shipment has at most one payment, and every payment belongs to
\* an existing shipment and carries that shipment's contractor.
C7_UmPagamentoPorRemessa ==
  /\ \A r \in DOMAIN remessas : Cardinality(PagamentosDe(pagamentos, r)) <= 1
  /\ \A p \in DOMAIN pagamentos :
       /\ pagamentos[p].remessa \in DOMAIN remessas
       /\ pagamentos[p].costureira = remessas[pagamentos[p].remessa].costureira

\* both shipments have a payment and payment generation has just run on a
\* shipment whose payment already existed (it had been marked paid before)
C7_Witness ==
  /\ Len(pagamentos) = 2
  /\ ultimo.op = "gerar_pagamento"
  /\ \E p \in PagamentosDe(pagamentos, ultimo.alvo) : pagamentos[p].status = "PAGO"

\* the contractor's base price for the shipment's phase-type
PrecoBase(rem) ==
  CASE rem.tipo = "CORTE"   -> Costureira(rem.costureira).preco_corte_por_peca
    [] rem.tipo = "COSTURA" -> Costureira(rem.costureira).preco_costura_por_peca
    [] OTHER                -> Costureira(rem.costureira).preco_correcao_por_peca

\* sum over the lines with ok > 0 of effective price * ok (1/10000)
TotalEsperado(rem) ==
  SumSeq([i \in 1..Len(rem.itens) |->
            IF rem.itens[i].qtd_ok > 0
            THEN (IF rem.itens[i].preco_unit # 0 THEN rem.itens[i].preco_unit
                  ELSE PrecoBase(rem)) * rem.itens[i].qtd_ok
            ELSE 0])

\* C8 as stated: the total of a finalization is the sum of effective price *
\* ok over the lines with ok > 0, and when it is positive the shipment's
\* payment has exactly that amount.
C8_ValorIgualAoTotal ==
  FinalizouOk(ultimo) =>
    /\ ultimo.valor = TotalEsperado(remessas[ultimo.alvo])
    /\ ultimo.valor > 0 =>
         \E p \in PagamentosDe(pagamentos, ultimo.alvo) :
           100 * pagamentos[p].valor_total = ultimo.valor

\* C8 amended: the total is that sum, and when it is positive the payment's
\* amount is the total rounded to two decimals, ties to the even cent.
C8_ValorTotalArredondado ==
  FinalizouOk(ultimo) =>
    /\ ultimo.valor = TotalEsperado(remessas[ultimo.alvo])
    /\ ultimo.valor > 0 =>
         \E p \in PagamentosDe(pagamentos, ultimo.alvo) :
           LET vt == pagamentos[p].valor_total
           IN  /\ Arredondado(vt, ultimo.valor)
               /\ 2 * Abs(100 * vt - ultimo.valor) = 100 => vt % 2 = 0

\* a finalization stored a total that had to be rounded, one line priced by
\* its override and the other by the contractor's base price
C8_Witness ==
  /\ FinalizouOk(ultimo) /\ ultimo.valor % 100 # 0
  /\ \E i, j \in 1..Len(remessas[ultimo.alvo].itens) :
       /\ remessas[ultimo.alvo].itens[i].qtd_ok > 0
       /\ remessas[ultimo.alvo].itens[i].preco_unit # 0
       /\ remessas[ultimo.alvo].itens[j].qtd_ok > 0
       /\ remessas[ultimo.alvo].itens[j].preco_unit = 0

\* the (line, BOM entry) pairs a finalization consumes: lines with ok > 0 and
\* entries whose resolved phase is the shipment's phase-type
Consumos(rem) ==
  {<<i, k>> \in (1..Len(rem.itens)) \X (1..3) :
     /\ rem.itens[i].qtd_ok > 0
     /\ k <= Len(Ficha(rem.itens[i].variacao))
     /\ resolver_fase_item(<<CategoriaNome(Ficha(rem.itens[i].variacao)[k].insumo)>>,
                           Ficha(rem.itens[i].variacao)[k].fase) = rem.tipo}

RECURSIVE SomaConsumo(_, _, _)
SomaConsumo(rem, m, ps) ==
  IF ps = {} THEN 0
  ELSE LET x == CHOOSE y \in ps : TRUE
           fi == Ficha(rem.itens[x[1]].variacao)[x[2]]
       IN  (IF fi.insumo = m
            THEN RoundHalfEven(fi.quantidade * rem.itens[x[1]].qtd_ok, 100)
            ELSE 0) + SomaConsumo(rem, m, ps \ {x})

CreditoEsperado(rem, v) ==
  IF rem.tipo # "COSTURA" THEN 0
  ELSE SumSeq([i \in 1..Len(rem.itens) |->
                 IF rem.itens[i].variacao = v /\ rem.itens[i].qtd_ok > 0
                 THEN rem.itens[i].qtd_ok ELSE 0])

\* C10: a finalization changes finished-goods stock only on SEW shipments:
\* each line with ok > 0 adds ok to its variant and appends one IN movement
\* tagged with the shipment and the contractor; CUT and CORRECTION leave
\* every variant's stock unchanged.
C10_EntradaSoNaCostura ==
  [][ FinalizouOk(ultimo') =>
        LET rem == remessas'[ultimo'.alvo]
            entradas == {i \in 1..Len(Novos) : Novos[i].tipo = "E"}
            linhas == {i \in 1..Len(rem.itens) : rem.itens[i].qtd_ok > 0}
        IN  /\ \A v \in Variacoes :
                 variacoes'[v].estoque_atual =
                   variacoes[v].estoque_atual + CreditoEsperado(rem, v)
            /\ rem.tipo # "COSTURA" => (variacoes' = variacoes /\ entradas = {})
            /\ rem.tipo = "COSTURA" =>
                 /\ Cardinality(entradas) = Cardinality(linhas)
                 /\ \A l \in linhas : \E i \in entradas :
                      /\ Novos[i].variacao = rem.itens[l].variacao
                      /\ Novos[i].quantidade = rem.itens[l].qtd_ok * 100
                      /\ Novos[i].remessa = ultimo'.alvo
                      /\ Novos[i].costureira = rem.costureira ]_vars

\* a SEW finalization credited both variants
C10_Witness ==
  /\ FinalizouOk(ultimo)
  /\ remessas[ultimo.alvo].tipo = "COSTURA"
  /\ \A v \in Variacoes : variacoes[v].estoque_atual > 0

\* direction, target and quantity of a movement
Quantidades(mv) == <<mv.tipo, mv.insumo, mv.variacao, mv.quantidade>>

\* the last n rows of the movement log
Ultimos(log, n) == SubSeq(log, Len(log) - n + 1, Len(log))

\* C11: a second successful finalization of the same shipment, right after a
\* first one and with the same lines, appends the same movements again (the
\* same material quantities issued and, on SEW, each variant credited by ok
\* again), changes the stocks by them once more, and leaves the payment's
\* amount as the first call left it.
C11_RefinalizarRepete ==
  [][ (FinalizouOk(ultimo) /\ FinalizouOk(ultimo')
       /\ ultimo'.alvo = ultimo.alvo
       /\ remessas'[ultimo.alvo].itens = remessas[ultimo.alvo].itens) =>
        LET r == ultimo.alvo
            antes == Ultimos(movimentos, ultimo.parcial)
        IN  /\ Len(Novos) = Len(antes)
            /\ \A i \in 1..Len(antes) : Quantidades(Novos[i]) = Quantidades(antes[i])
            /\ \A m \in Insumos :
                 insumos[m].estoque_atual - insumos'[m].estoque_atual =
                   SumSeq([i \in 1..Len(antes) |->
                             IF antes[i].tipo = "S" /\ antes[i].insumo = m
                             THEN antes[i].quantidade ELSE 0])
            /\ \A v \in Variacoes :
                 variacoes'[v].estoque_atual - variacoes[v].estoque_atual =
                   CreditoEsperado(remessas[r], v)
            /\ PagamentosDe(pagamentos', r) = PagamentosDe(pagamentos, r)
            /\ \A p \in PagamentosDe(pagamentos, r) :
                 pagamentos'[p].valor_total = pagamentos[p].valor_total ]_vars

\* a SEW shipment was finalized twice with the same lines: the log holds the
\* same block of issues and credits two times over, and one payment
C11_Witness ==
  /\ FinalizouOk(ultimo) /\ ultimo.parcial > 0
  /\ remessas[ultimo.alvo].tipo = "COSTURA"
  /\ Len(movimentos) = 2 * ultimo.parcial
  /\ \A i \in 1..ultimo.parcial :
       Quantidades(movimentos[i]) = Quantidades(movimentos[i + ultimo.parcial])
  /\ \E i \in 1..Len(movimentos) : movimentos[i].tipo = "E"
  /\ Cardinality(PagamentosDe(pagamentos, ultimo.alvo)) = 1

\* quantity a Process for Q units issues for BOM entry fi: quantity_per_unit * Q
\* at four decimals
BaixaOP(fi, Q) == RoundHalfEven(fi.quantidade * Q, 100)

\* C12: a successful Process for quantity Q issues quantity_per_unit * Q from
\* the material of every BOM entry, returns and stores on the variant the unit
\* cost (C + labour + overhead) / Q at four decimals, C being the sum of
\* weighted-average cost * issued quantity over the entries, adds exactly Q to
\* the variant's stock and appends one IN movement for the variant; an order
\* turned into production orders does so once per order line.
C12_ProcessarCreditaQ ==
  [][ /\ (ultimo'.op = "op_create" /\ ~ultimo'.erro) =>
           LET op == ultimo'.alvo
               v == op.variacao
               Q == op.quantidade
               f == Ficha(v)
               C == SumSeq([k \in 1..Len(f) |->
                              insumos[f[k].insumo].custo_medio * BaixaOP(f[k], Q)])
               total == C + (op.custo_mao_de_obra + op.custo_indireto_rateado) * 1000000
               cu == variacoes'[v].custo_unitario
               entradas == {i \in 1..Len(Novos) : Novos[i].tipo = "E"}
           IN  /\ \A m \in Insumos :
                    insumos'[m].estoque_atual =
                      insumos[m].estoque_atual
                        - SumSeq([k \in 1..Len(f) |->
                                    IF f[k].insumo = m THEN BaixaOP(f[k], Q) ELSE 0])
               /\ ultimo'.valor = cu
               /\ 2 * Abs(cu * Q * 100 - total) <= Q * 100
               /\ variacoes'[v].estoque_atual = variacoes[v].estoque_atual + Q
               /\ Cardinality(entradas) = 1
               /\ \A i \in entradas :
                    Novos[i].variacao = v /\ Novos[i].quantidade = Q * 100
      /\ (ultimo'.op = "pedido_gerar_ops" /\ ~ultimo'.erro) =>
           LET itens == ItensPedido(ultimo'.alvo)
               entradas == {i \in 1..Len(Novos) : Novos[i].tipo = "E"}
           IN  /\ Cardinality(entradas) = Len(itens)
               /\ \A v \in Variacoes :
                    variacoes'[v].estoque_atual =
                      variacoes[v].estoque_atual
                        + SumSeq([k \in 1..Len(itens) |->
                                    IF itens[k].variacao = v
                                    THEN itens[k].quantidade ELSE 0]) ]_vars

\* the movements of material m in a log
MovimentosDe(log, m) == SelectSeq(log, LAMBDA mv : mv.insumo = m)

\* q is n / d rounded to the nearest integer
QuocienteArredondado(q, n, d) == 2 * Abs(q * d - n) <= d

\* C13 as stated: a receipt of (quantity, unit_cost) on a material holding
\* (old_qty, old_cost) adds quantity to the quantity on hand and sets the cost
\* to exactly (old_qty*old_cost + quantity*unit_cost) / (old_qty + quantity)
\* when old_qty + quantity > 0, and leaves the cost unchanged otherwise.
C13_CustoMedioExato ==
  [][ ultimo'.op = "entrada" =>
        LET m == ultimo'.alvo
            q == Novos[1].quantidade
            c == Novos[1].custo_unit
            total == insumos[m].estoque_atual * insumos[m].custo_medio + q * c
            novo == insumos[m].estoque_atual + q
        IN  /\ insumos'[m].estoque_atual = novo
            /\ novo > 0 => insumos'[m].custo_medio * novo = total
            /\ novo <= 0 => insumos'[m].custo_medio = insumos[m].custo_medio ]_vars

\* C13 amended: the stored cost is that quotient rounded to the nearest
\* value of four decimals; after two receipts (q1, c1), (q2, c2) on an empty material
\* it is (q1*c1 + q2*c2) / (q1 + q2) rounded so.
C13_CustoMedioArredondado ==
  [][ ultimo'.op = "entrada" =>
        LET m == ultimo'.alvo
            q == Novos[1].quantidade
            c == Novos[1].custo_unit
            total == insumos[m].estoque_atual * insumos[m].custo_medio + q * c
            novo == insumos[m].estoque_atual + q
            antes == MovimentosDe(movimentos, m)
        IN  /\ insumos'[m].estoque_atual = novo
            /\ novo > 0 => QuocienteArredondado(insumos'[m].custo_medio, total, novo)
            /\ novo <= 0 => insumos'[m].custo_medio = insumos[m].custo_medio
            /\ (Len(antes) = 1 /\ antes[1].tipo = "E" /\ antes[1].quantidade > 0
                 /\ insumos[m].estoque_atual = antes[1].quantidade) =>
                 QuocienteArredondado(insumos'[m].custo_medio,
                                      antes[1].quantidade * antes[1].custo_unit + q * c,
                                      antes[1].quantidade + q) ]_vars

\* two receipts on a material that was empty, whose average does not fit in
\* four decimals
C13_Witness ==
  /\ ultimo.op = "entrada"
  /\ LET log == MovimentosDe(movimentos, ultimo.alvo)
     IN  /\ Len(log) = 2 /\ log[1].tipo = "E" /\ log[2].tipo = "E"
         /\ log[1].quantidade > 0 /\ log[2].quantidade > 0
         /\ insumos[ultimo.alvo].estoque_atual = log[1].quantidade + log[2].quantidade
         /\ (log[1].quantidade * log[1].custo_unit + log[2].quantidade * log[2].custo_unit)
              % (log[1].quantidade + log[2].quantidade) # 0

\* quantity the movements of log add to (IN) and take from (OUT) material m
SaldoMovimentos(log, m) ==
  SumSeq([i \in 1..Len(log) |->
            IF log[i].insumo # m THEN 0
            ELSE IF log[i].tipo = "E" THEN log[i].quantidade
            ELSE 0 - log[i].quantidade])

\* C14: whatever the interleaving of the requests, no update is lost: every
\* step changes each material's quantity on hand by exactly the receipts and
\* issues it commits (so the quantity is always the initial one plus all
\* committed receipts minus all committed issues), and never below zero.
C14_SemAtualizacaoPerdida ==
  [][ \A m \in Insumos :
        /\ insumos'[m].estoque_atual =
             insumos[m].estoque_atual + SaldoMovimentos(Novos, m)
        /\ insumos'[m].estoque_atual >= 0 ]_vars

\* C15: two finalizations of the same shipment that were in flight together
\* (both read the same state) end in the state that running the two calls
\* one after the other reaches, and neither is refused because of the other.
C15_FinalizacoesSerializadas ==
  \A q1, q2 \in DOMAIN requisicoes :
    (/\ q1 < q2
     /\ requisicoes[q1].pc = "fim" /\ requisicoes[q2].pc = "fim"
     /\ requisicoes[q1].r = requisicoes[q2].r
     /\ requisicoes[q1].base = requisicoes[q2].base) =>
      LET r == requisicoes[q1].r
          t == IF remessas[r].recebido_em # 0 THEN remessas[r].recebido_em ELSE 1
          s1 == finalizar_recebimento(requisicoes[q1].base, r, t)
          s2 == finalizar_recebimento(s1.db, r, t)
      IN  /\ DB = s2.db
          /\ ~requisicoes[q1].bloqueada /\ ~requisicoes[q2].bloqueada

\* the two entry points of Remessa.gerar_remessa_posterior
OpsGerar == {"generate_next", "admin_gerar_costura"}

\* C16: a successful GenerateSuccessor adds exactly one shipment and leaves the
\* others as they were; the new one is SENT (status ENVIADA, never received),
\* has the source's grouping product, the contractor passed or else the
\* source's, and one line per source line in the same order, also for lines
\* with ok = 0: same variant, planned quantity = the source line's ok, and
\* ok, loss, missing and returned all zero.
C16_SucessoraCopiaOk ==
  [][ (ultimo'.op \in OpsGerar /\ ~ultimo'.erro) =>
        LET src == remessas[ultimo'.alvo]
            nova == remessas'[Len(remessas')]
        IN  /\ Len(remessas') = Len(remessas) + 1
            /\ \A k \in DOMAIN remessas : remessas'[k] = remessas[k]
            /\ nova.status = "ENVIADA" /\ nova.recebido_em = 0
            /\ nova.produto = src.produto
            /\ nova.costureira = IF ultimo'.valor.costureira # ""
                                 THEN ultimo'.valor.costureira ELSE src.costureira
            /\ Len(nova.itens) = Len(src.itens)
            /\ \A i \in 1..Len(src.itens) :
                 /\ nova.itens[i].variacao = src.itens[i].variacao
                 /\ nova.itens[i].qtd_prevista = src.itens[i].qtd_ok
                 /\ nova.itens[i].qtd_ok = 0 /\ nova.itens[i].qtd_perda = 0
                 /\ nova.itens[i].qtd_extravio = 0
                 /\ nova.itens[i].qtd_devolvida = 0 ]_vars

\* a successor was generated for another contractor from a shipment that has
\* a line with ok = 0 and a line with ok > 0
C16_Witness ==
  /\ ultimo.op = "generate_next" /\ ~ultimo.erro
  /\ ultimo.valor.costureira = "c2" /\ remessas[ultimo.alvo].costureira = "c1"
  /\ remessas[Len(remessas)].costureira = "c2"
  /\ Len(remessas[Len(remessas)].itens) = 2
  /\ \E i, j \in 1..Len(remessas[ultimo.alvo].itens) :
       /\ remessas[ultimo.alvo].itens[i].qtd_ok = 0
       /\ remessas[ultimo.alvo].itens[j].qtd_ok > 0
       /\ remessas[Len(remessas)].itens[i].qtd_prevista = 0
       /\ remessas[Len(remessas)].itens[j].qtd_prevista > 0

\* C17: a GenerateSuccessor asked for the phase-type the source shipment
\* already has fails and creates no shipment and no lines.
C17_MesmoTipoFalha ==
  [][ (ultimo'.op \in OpsGerar
       /\ ultimo'.valor.tipo = remessas[ultimo'.alvo].tipo) =>
        (ultimo'.erro /\ remessas' = remessas) ]_vars

\* C18: a call with a configured phase other than AUTO returns that phase
\* whatever the category name; a call with AUTO returns CORTE (CUT) exactly
\* when the name, blanks around it and letter case set aside, is "tecido",
\* and COSTURA (SEW) for every other name, the empty and the missing one
\* included.
C18_FaseConfiguradaOuTecido ==
  ultimo.op = "resolver_fase_item" =>
    /\ ultimo.alvo.fase \in {"CORTE", "COSTURA"} => ultimo.valor = ultimo.alvo.fase
    /\ ultimo.alvo.fase = "AUTO" =>
         /\ ultimo.valor \in {"CORTE", "COSTURA"}
         /\ ultimo.valor = "CORTE" <=>
              ultimo.alvo.nome \in { <<n>> : n \in Cercadas(GrafiasTecido) }
         /\ ultimo.alvo.nome \in {<<>>, << <<>> >>, << <<" ">> >>} =>
              ultimo.valor = "COSTURA"

\* a BOM entry configured for COSTURA on a material of category "Tecido"
\* resolved to COSTURA
C18_Witness ==
  /\ ultimo.op = "resolver_fase_item"
  /\ ultimo.alvo = [nome |-> << <<"T", "e", "c", "i", "d", "o">> >>, fase |-> "COSTURA"]
  /\ ultimo.valor = "COSTURA"

\* the category names C19 lists
NomeTecido == << <<"T", "e", "c", "i", "d", "o">> >>
NomeTECIDO == << <<"T", "E", "C", "I", "D", "O">> >>
Nometecido == << <<"t", "e", "c", "i", "d", "o">> >>
NomeTecidoAgudo == << <<"T", "e", "c", "i", "d", "o_agudo">> >>

C20_CanceladaTerminal ==
  [][ \A r \in DOMAIN remessas :
        /\ (remessas[r].status = "CANCELADA"
            /\ ultimo'.op \in OpsFinalizar \cup OpsGerar) =>
             remessas'[r].status = "CANCELADA"
        /\ remessas[r].status = "CONCLUIDO" => remessas'[r].status # "CANCELADA" ]_vars

\* quantity the movements of log add to (IN) and take from (OUT) variant v
SaldoMovimentosVariacao(log, v) ==
  SumSeq([i \in 1..Len(log) |->
            IF log[i].variacao # v THEN 0
            ELSE IF log[i].tipo = "E" THEN log[i].quantidade
            ELSE 0 - log[i].quantidade])

\* C21: every step changes each material's and each variant's quantity on
\* hand by exactly the IN minus the OUT movements it records for it (so the
\* quantity is always the initial one plus all IN minus all OUT movements),
\* changes a cost only when it records a movement for that material or
\* variant, and leaves the movements recorded before as they were.
C21_SoPorMovimento ==
  [][ /\ Len(movimentos') >= Len(movimentos)
      /\ SubSeq(movimentos', 1, Len(movimentos)) = movimentos
      /\ \A m \in Insumos :
           /\ insumos'[m].estoque_atual =
                insumos[m].estoque_atual + SaldoMovimentos(Novos, m)
           /\ insumos'[m].custo_medio # insumos[m].custo_medio =>
                \E i \in 1..Len(Novos) : Novos[i].insumo = m
      /\ \A v \in Variacoes :
           /\ variacoes'[v].estoque_atual =
                variacoes[v].estoque_atual + SaldoMovimentosVariacao(Novos, v)
           /\ variacoes'[v].custo_unitario # variacoes[v].custo_unitario =>
                \E i \in 1..Len(Novos) : Novos[i].variacao = v ]_vars

\* the posted rows have no negative value and a row whose ok + loss + missing
\* + returned exceeds the planned quantity of its line
Excedente(itens, forms) ==
  /\ \A i \in 1..Len(itens) :
       /\ forms[i].qtd_ok >= 0 /\ forms[i].qtd_perda >= 0
       /\ forms[i].qtd_extravio >= 0 /\ forms[i].qtd_devolvida >= 0
  /\ \E i \in 1..Len(itens) :
       forms[i].qtd_ok + forms[i].qtd_perda + forms[i].qtd_extravio
         + forms[i].qtd_devolvida > itens[i].qtd_prevista

\* C22: a receipt posted with a row above the planned quantity (the post the
\* form marks with an error) is accepted: the posted values are stored as
\* they are and the shipment is finalized
\* (received_at set, status CONCLUIDO when the aggregate balance is <= 0 and
\* PARCIAL otherwise).
C22_ExcedenteAceito ==
  [][ (/\ ultimo'.op = "remessa_receive_invalido"
       /\ Excedente(remessas[ultimo'.alvo].itens, ultimo'.valor)) =>
        LET r == ultimo'.alvo
        IN  /\ remessas'[r].itens = SalvarFormset(remessas[r].itens, ultimo'.valor)
            /\ remessas'[r].recebido_em # 0
            /\ remessas'[r].status =
                 IF SaldoDasLinhas(remessas'[r]) <= 0 THEN "CONCLUIDO" ELSE "PARCIAL"
    ]_vars

\* C23: a successful finalization leaves the shipment with received_at set and
\* status PARCIAL when its line balances sum to more than zero, CONCLUIDO
\* when they sum to zero or less; a shipment no finalization has succeeded
\* on has received_at unset and status ENVIADA.
C23_StatusAposFinalizar ==
  [][ /\ FinalizouOk(ultimo') =>
           LET rem == remessas'[ultimo'.alvo]
           IN  /\ rem.recebido_em # 0
               /\ rem.status = IF SaldoDasLinhas(rem) > 0 THEN "PARCIAL" ELSE "CONCLUIDO"
      /\ \A r \in DOMAIN remessas :
           /\ remessas[r].recebido_em = 0 => remessas[r].status = "ENVIADA"
           /\ (remessas[r].recebido_em = 0
               /\ ~(FinalizouOk(ultimo') /\ ultimo'.alvo = r)) =>
                (remessas'[r].recebido_em = 0 /\ remessas'[r].status = "ENVIADA")
    ]_vars

\* a finalization succeeded on lines whose balances sum to less than zero
\* (more pieces accounted for than planned) and the shipment is CONCLUIDO
C23_Witness ==
  /\ FinalizouOk(ultimo)
  /\ SaldoDasLinhas(remessas[ultimo.alvo]) < 0
  /\ remessas[ultimo.alvo].status = "CONCLUIDO"
  /\ remessas[ultimo.alvo].recebido_em # 0

\* C24: once received_at of a shipment is set, no step changes or clears it
\* (a later finalization keeps the first timestamp) and its status is never
\* ENVIADA again.
C24_RecebidoEmFixo ==
  [][ \A r \in DOMAIN remessas :
        remessas[r].recebido_em # 0 =>
          /\ remessas'[r].recebido_em = remessas[r].recebido_em
          /\ remessas'[r].status # "ENVIADA" ]_vars

\* a shipment was finalized again after its payment had been marked paid at a
\* later clock reading: received_at is still the earlier reading
C24_Witness ==
  /\ FinalizouOk(ultimo)
  /\ remessas[ultimo.alvo].recebido_em # 0
  /\ \E p \in PagamentosDe(pagamentos, ultimo.alvo) :
       pagamentos[p].pago_em > remessas[ultimo.alvo].recebido_em

\* C25: a successful issue of q from material m takes exactly q from its
\* quantity on hand, leaves its cost and the other materials as they were and
\* appends one OUT movement of q for m whose unit cost is the cost m has; a
\* receipt of (q, c) on m appends one IN movement of q at unit cost c for m.
C25_UmMovimentoPorChamada ==
  [][ /\ (ultimo'.op = "saida" /\ ~ultimo'.erro) =>
           LET m == ultimo'.alvo
           IN  /\ insumos'[m].estoque_atual = insumos[m].estoque_atual - ultimo'.valor
               /\ insumos'[m].custo_medio = insumos[m].custo_medio
               /\ \A o \in Insumos \ {m} : insumos'[o] = insumos[o]
               /\ movimentos' =
                    Append(movimentos,
                           MovimentoEstoque("S", m, "", ultimo'.valor,
                                            insumos[m].custo_medio, "", 0))
      /\ ultimo'.op = "entrada" =>
           movimentos' =
             Append(movimentos,
                    MovimentoEstoque("E", ultimo'.alvo, "", ultimo'.valor,
                                     ultimo'.custo_unit, "", 0)) ]_vars

\* an issue succeeded on a material whose cost a receipt had changed: the OUT
\* movement carries the averaged cost, not the cost of the receipt
C25_Witness ==
  /\ ultimo.op = "saida" /\ ~ultimo.erro
  /\ Len(movimentos) >= 2
  /\ LET e == movimentos[Len(movimentos) - 1]
         s == movimentos[Len(movimentos)]
     IN  /\ e.tipo = "E" /\ e.insumo = ultimo.alvo /\ e.quantidade > 0
         /\ s.tipo = "S" /\ s.insumo = ultimo.alvo
         /\ s.custo_unit = insumos[ultimo.alvo].custo_medio
         /\ s.custo_unit # e.custo_unit

\* C26: in every state a payment has paid_at set exactly when its status is
\* PAGO; a PENDENTE payment carries no paid_at.
C26_PagoEmSseStatusPago ==
  \A p \in DOMAIN pagamentos :
    (pagamentos[p].pago_em # 0) <=> (pagamentos[p].status = "PAGO")

\* C27 as stated: after a successful finalization every payment of the
\* shipment has the total that call computed as its amount; when that total
\* is 0 no payment with a positive amount remains for the shipment.
C27_PagamentoIgualAoTotal ==
  FinalizouOk(ultimo) =>
    \A p \in PagamentosDe(pagamentos, ultimo.alvo) :
      100 * pagamentos[p].valor_total = ultimo.valor

\* C27 amended: a successful finalization whose total is > 0 leaves the
\* shipment with a payment whose amount is that total rounded to two
\* decimals; one whose total is 0 creates, changes and removes no payment, so
\* a payment with an earlier positive amount stays as it was.
C27_PagamentoSeTotalPositivo ==
  [][ FinalizouOk(ultimo') =>
        LET r == ultimo'.alvo
        IN  /\ ultimo'.valor >= 0
            /\ ultimo'.valor > 0 =>
                 /\ PagamentosDe(pagamentos', r) # {}
                 /\ \A p \in PagamentosDe(pagamentos', r) :
                      Arredondado(pagamentos'[p].valor_total, ultimo'.valor)
            /\ ultimo'.valor = 0 => pagamentos' = pagamentos ]_vars

\* the lines of a shipment were corrected to nothing received and it was
\* finalized again: its payment still has the earlier positive amount
C27_Witness ==
  /\ FinalizouOk(ultimo) /\ ultimo.valor = 0
  /\ \A i \in 1..Len(remessas[ultimo.alvo].itens) :
       remessas[ultimo.alvo].itens[i].qtd_ok = 0
  /\ \E p \in PagamentosDe(pagamentos, ultimo.alvo) : pagamentos[p].valor_total > 0

\* C28: the amount a successful finalization stores in the payment (the sum
\* of effective price * ok rounded once) is the shipment's total_a_pagar (the
\* sum of the per-line amounts, each rounded), the amount the admin action
\* gerar_pagamento stores.
C28_DoisTotaisIguais ==
  (FinalizouOk(ultimo) /\ ultimo.valor > 0) =>
    \A p \in PagamentosDe(pagamentos, ultimo.alvo) :
      pagamentos[p].valor_total = total_a_pagar(remessas[ultimo.alvo])

\* C29: every creation of a successor shipment succeeds with a number that no
\* existing shipment has, also within the clock second of the last creation
\* (a number that collides is drawn again instead of failing the creation).
C29_NumeroSempreNovo ==
  [][ (ultimo'.op \in OpsGerar /\ ultimo'.valor.tipo # "") =>
        /\ ~ultimo'.erro
        /\ Len(remessas') = Len(remessas) + 1
        /\ \A k \in DOMAIN remessas :
             remessas'[Len(remessas')].numero # remessas[k].numero ]_vars

\* quantity the lines of order p ask of variant v (1/100)
PedidoDe(p, v) ==
  SumSeq([k \in 1..Len(ItensPedido(p)) |->
            IF ItensPedido(p)[k].variacao = v THEN ItensPedido(p)[k].quantidade ELSE 0])

\* C30: invoicing an order either is refused and changes no stock and no
\* movement, or takes from every variant the quantity of every line of the
\* order for it (also of two lines for the same variant) and leaves every
\* variant's quantity on hand at zero or more.
C30_FaturarNaoNegativa ==
  [][ ultimo'.op = "pedido_faturar" =>
        IF ultimo'.erro
        THEN variacoes' = variacoes /\ movimentos' = movimentos
        ELSE \A v \in Variacoes :
               /\ variacoes'[v].estoque_atual =
                    variacoes[v].estoque_atual - PedidoDe(ultimo'.alvo, v)
               /\ variacoes'[v].estoque_atual >= 0 ]_vars
====
